---- MODULE Spec2Model ----
(***************************************************************************)
(* Model of the RaptorQ service (src/rqprocessor.rs, src/rqserver.rs,      *)
(* src/app.rs): the repair count policy, the three Processor operations,   *)
(* the RPC handlers that wrap them, two Encode requests served in          *)
(* parallel, and the resolution of the settings at startup.                *)
(***************************************************************************)
EXTENDS Integers, Sequences, FiniteSets, TLC

VARIABLES
    calc,       \* one call of the repair count policy (SpecPolicy)
    startup,    \* ServiceSettings::new at process start (SpecSettings)
    par,        \* two Encode requests served in parallel (SpecParallel)
    settings,   \* RaptorQProcessor {symbol_size, redundancy_factor}
    input,      \* bytes of the source file at the request's path
    symbols,    \* the symbols/ directory: file name -> file contents
    meta,       \* the meta/ directory: file name -> manifest
    restored,   \* the sibling restored_file: its bytes, or NoFile
    op,         \* the Processor operation in progress and its locals
    last,       \* the operation that has just returned, with its result
    reply,      \* the RPC reply to the request that has just been served
    returned,   \* EncoderMetaData most recently returned by encode, and
                \* all the values that encode and create_metadata returned
    served      \* number of requests accepted so far

\* the variables of the other specifications, which the service leaves alone
aside == <<calc, startup, par>>

vars == <<calc, startup, par, settings, input, symbols, meta, restored, op,
          last, reply, returned, served>>

(***************************************************************************)
(* Wide naturals.  data_len is a u64 and the repair count a u32; both      *)
(* exceed the integers TLC evaluates, so they are kept as five limbs of    *)
(* 15 bits, least significant first (75 bits >= 64 + 8 bits, the width of  *)
(* data_len times a u8).                                                   *)
(***************************************************************************)
Base == 32768

Limbs == 5

ToWide(n) == <<n % Base, (n \div Base) % Base, n \div (Base * Base), 0, 0>>

FromWide(w) == w[1] + Base * w[2] + Base * Base * w[3]

WLess(a, b) ==
    \E i \in 1..Limbs : a[i] < b[i] /\ \A j \in (i + 1)..Limbs : a[j] = b[j]

WLeq(a, b) == a = b \/ WLess(a, b)

RECURSIVE MulCarry(_, _, _)
MulCarry(a, m, i) ==
    IF i = 0 THEN 0 ELSE (a[i] * m + MulCarry(a, m, i - 1)) \div Base

WMulSmall(a, m) ==
    [i \in 1..Limbs |-> (a[i] * m + MulCarry(a, m, i - 1)) % Base]

RECURSIVE AddCarry(_, _, _)
AddCarry(a, b, i) ==
    IF i = 0 THEN 0 ELSE (a[i] + b[i] + AddCarry(a, b, i - 1)) \div Base

WAdd(a, b) ==
    [i \in 1..Limbs |-> (a[i] + b[i] + AddCarry(a, b, i - 1)) % Base]

RECURSIVE DivRem(_, _, _)
DivRem(a, d, i) ==
    IF i > Limbs THEN 0 ELSE (DivRem(a, d, i + 1) * Base + a[i]) % d

WDivSmall(a, d) ==
    [i \in 1..Limbs |-> (DivRem(a, d, i + 1) * Base + a[i]) \div d]

WCeilDiv(a, d) ==
    IF DivRem(a, d, 1) = 0 THEN WDivSmall(a, d)
    ELSE WAdd(WDivSmall(a, d), ToWide(1))

\* u32::MAX = 2^32 - 1 and u64::MAX = 2^64 - 1 in limbs
U32_MAX == <<32767, 32767, 3, 0, 0>>

U64_MAX == <<32767, 32767, 32767, 32767, 15>>

WZero == ToWide(0)

(***************************************************************************)
(* Repair count policy.                                                    *)
(*                                                                         *)
(* The quotient is computed in f64 and cast with `as u32`, which saturates *)
(* (negative and NaN give 0, values above u32::MAX give u32::MAX).  The    *)
(* f64 steps are exact integers or correctly rounded quotients whenever    *)
(* the quotient is below 2^32: then data_len * (R - 1) < 2^48 is exactly   *)
(* representable and the rounded quotient lies within 2^-21 of the exact   *)
(* one, which is at least 1/65535 away from the integer below it.  Above   *)
(* 2^32 every rounding keeps the value above 2^32 and the cast saturates.  *)
(* So the ceiling of the f64 quotient is the ceiling of the exact one.     *)
(***************************************************************************)
F64CeilAsU32(data_len, factor, symbol_size) ==
    IF symbol_size = 0
    THEN (IF factor > 0 THEN U32_MAX ELSE WZero)       \* +inf / NaN, -inf
    ELSE IF factor <= 0 THEN WZero                     \* zero or negative
    ELSE LET q == WCeilDiv(WMulSmall(data_len, factor), symbol_size)
         IN  IF WLess(U32_MAX, q) THEN U32_MAX ELSE q

\* the policy with the whole factor R in place of R - 1
repair_symbols_num_full(symbol_size, redundancy_factor, data_len) ==
    IF WLeq(data_len, ToWide(symbol_size))
    THEN ToWide(redundancy_factor)
    ELSE F64CeilAsU32(data_len, redundancy_factor, symbol_size)

repair_symbols_num(symbol_size, redundancy_factor, data_len) ==
    IF WLeq(data_len, ToWide(symbol_size))
    THEN ToWide(redundancy_factor)
    ELSE F64CeilAsU32(data_len, redundancy_factor - 1, symbol_size)

(***************************************************************************)
(* FEC codec (the raptorq library behind Encoder, Decoder, EncodingPacket  *)
(* and ObjectTransmissionInformation).  An object of L bytes is cut into   *)
(* ceil(L / T) source symbols of T bytes, the last one zero padded; packet *)
(* number i of an enumeration carries encoding symbol id i - 1.  A repair  *)
(* packet stands for a combination of the whole block: any set of packets  *)
(* with as many distinct ids as there are source symbols determines it.    *)
(***************************************************************************)
int_div_ceil(a, b) == (a + b - 1) \div b

with_defaults(transfer_length, max_packet_size) ==
    [transfer_length |-> transfer_length, symbol_size |-> max_packet_size]

\* 12 bytes: 40 bits of length, a reserved byte, 16 bits of symbol size,
\* the number of source blocks (1), of sub-blocks (1), the alignment (8)
OtiSerialize(oti) ==
    <<0, 0, 0, (oti.transfer_length \div 256) % 256,
      oti.transfer_length % 256, 0,
      (oti.symbol_size \div 256) % 256, oti.symbol_size % 256,
      1, 0, 1, 8>>

OtiDeserialize(cfg) ==
    [transfer_length |-> cfg[4] * 256 + cfg[5],
     symbol_size |-> cfg[7] * 256 + cfg[8]]

SourceSymbols(oti) == int_div_ceil(oti.transfer_length, oti.symbol_size)

\* the zero padded source block
Block(data, oti) ==
    [i \in 1..(SourceSymbols(oti) * oti.symbol_size) |->
        IF i <= Len(data) THEN data[i] ELSE 0]

SymbolOf(block, T, i) == SubSeq(block, (i - 1) * T + 1, i * T)

EncoderNew(data, config) == [config |-> config, data |-> data]

get_encoded_packets(enc, repair_packets) ==
    LET K == SourceSymbols(enc.config)
        blk == Block(enc.data, enc.config)
    IN  [i \in 1..(K + repair_packets) |->
            IF i <= K
            THEN [esi |-> i - 1, kind |-> "source",
                  body |-> SymbolOf(blk, enc.config.symbol_size, i)]
            ELSE [esi |-> i - 1, kind |-> "repair", body |-> blk]]

\* a packet on the wire: its payload id followed by its payload
PacketSerialize(packet) == <<packet.esi, packet.kind, packet.body>>

\* bytes that are no serialized packet (too short to hold a payload id)
Garbage == <<>>

WellFormed(bytes) == Len(bytes) = 3

PacketDeserialize(bytes) ==
    [esi |-> bytes[1], kind |-> bytes[2], body |-> bytes[3]]

DecoderNew(config) == [config |-> config, received |-> {}]

DecoderComplete(dec) ==
    /\ dec.config.symbol_size > 0
    /\ Cardinality({p.esi : p \in dec.received})
           >= SourceSymbols(dec.config)

\* the object rebuilt from the received packets
Reconstruct(dec) ==
    LET T == dec.config.symbol_size
        K == SourceSymbols(dec.config)
        Sym(i) ==
            IF \E p \in dec.received : p.kind = "source" /\ p.esi = i - 1
            THEN (CHOOSE p \in dec.received :
                      p.kind = "source" /\ p.esi = i - 1).body
            ELSE IF \E p \in dec.received :
                        p.kind = "repair" /\ Len(p.body) >= i * T
            THEN SymbolOf((CHOOSE p \in dec.received :
                      p.kind = "repair" /\ Len(p.body) >= i * T).body, T, i)
            ELSE [j \in 1..T |-> 0]
        Cell(n) == LET s == Sym(((n - 1) \div T) + 1)
                       k == ((n - 1) % T) + 1
                   IN  IF k <= Len(s) THEN s[k] ELSE 0
    IN  [n \in 1..dec.config.transfer_length |-> Cell(n)]

\* Decoder::decode: Some(object) on the insertion that completes, else None
DecoderDecode(dec, packet) ==
    LET d == [dec EXCEPT !.received = @ \cup {packet}]
    IN  [dec |-> d,
         result |-> IF DecoderComplete(d)
                    THEN <<Reconstruct(d)>> ELSE <<>>]

(***************************************************************************)
(* Identifier function: base58(SHA3-256(bytes)).  The hash is taken to be  *)
(* free of collisions, so an identifier determines the bytes hashed.       *)
(***************************************************************************)
Sha3_256(bytes) == [sha3 |-> bytes]

bs58_encode(digest) == <<"b58", digest>>

\* the identifier with hasher.update(symbol) left out
symbols_id_no_update(symbol) == bs58_encode(Sha3_256(Garbage))

symbols_id(symbol) == bs58_encode(Sha3_256(symbol))

(***************************************************************************)
(* Inputs of the repair count policy                                       *)
(***************************************************************************)
MaxDataLen == 6

MaxScale == 2

U16_MAX == 65535

U8_MAX == 255

DefaultSymbolSize == 50000

DefaultRedundancy == 12

PolicySizes == {0, 1, 2, 3, DefaultSymbolSize, U16_MAX}

PolicyFactors == {0, 1, 2, 3, DefaultRedundancy, U8_MAX}

\* small lengths, lengths around a quotient of 2^32, and the largest u64
PolicyLens ==
    {ToWide(n) : n \in 0..MaxDataLen}
    \cup {WAdd(WMulSmall(U32_MAX, m), ToWide(d)) :
              m \in 1..MaxScale, d \in 0..MaxDataLen}
    \cup {ToWide(10000), ToWide(10000000), ToWide(10000001), U64_MAX}

CalcIdle == [pc |-> "idle"]

StartupIdle == [pc |-> "idle"]

ParIdle == [pc |-> "idle"]

(***************************************************************************)
(* Bounds of the Processor model                                           *)
(***************************************************************************)
MaxFileLen == 2

MaxSymbolSize == 2

MaxRedundancy == 2

MaxFilesNumber == 2

MaxRequests == 2

\* one file of every length, its bytes all different and none the padding 0
SourceFiles == {[i \in 1..n |-> i] : n \in 1..MaxFileLen}

BlockHashes == {"12345", "abcde"}

PastelIds == {"67890"}

\* enough GUIDs for every replica of every request
Guids == 1..(MaxRequests * MaxFilesNumber)

(***************************************************************************)
(* Values                                                                  *)
(***************************************************************************)
InputPath == "test/F"

SymbolsPath == "test/symbols"

MetaPath == "test/meta"

RestoredPath == "test/restored_file"

EmptyDir == <<>>

NoFile == [exists |-> FALSE]

FileOf(bytes) == [exists |-> TRUE, bytes |-> bytes]

Idle == [kind |-> "idle"]

NoLast == [op |-> Idle, result |-> [kind |-> "None"]]

NoReply == [status |-> "none"]

NoneReturned == [some |-> FALSE, all |-> {}]

\* RqProcessorError::new / new_file_err
RqProcessorError(func, msg, prev_msg) ==
    [kind |-> "Err", func |-> func, msg |-> msg, prev_msg |-> prev_msg]

Ok(value) == [kind |-> "Ok", value |-> value]

Panicked == [kind |-> "Panic"]

\* a file written in full, a file created and then cut short by a failed
\* write, or no file at all when the create failed
TruncatedSymbol == Garbage

TruncatedManifest == [truncated |-> TRUE]

Put(dir, name, contents) == (name :> contents) @@ dir

Remove(dir, name) == [n \in DOMAIN dir \ {name} |-> dir[n]]

IoWrite == {"ok", "create", "write"}

\* a failed write passed over in silence
create_and_write_swallow(func, io) ==
    IF io = "create"
    THEN RqProcessorError(func, "Cannot create file", "os error")
    ELSE Ok(<<>>)

create_and_write(func, io) ==
    IF io = "create"
    THEN RqProcessorError(func, "Cannot create file", "os error")
    ELSE IF io = "write"
    THEN RqProcessorError(func, "Cannot write into the file", "os error")
    ELSE Ok(<<>>)

IoRead == {"ok", "open", "read"}

open_and_read(func, io) ==
    IF io = "open"
    THEN RqProcessorError(func, "Cannot open file", "os error")
    ELSE IF io = "read"
    THEN RqProcessorError(func, "Cannot read input file", "os error")
    ELSE Ok(<<>>)

get_encoder(io) ==
    IF io = "open"
    THEN RqProcessorError("get_encoder", "Cannot open file", "os error")
    ELSE IF io = "metadata"
    THEN RqProcessorError("get_encoder", "Cannot access metadata of file",
                          "os error")
    ELSE IF io = "read"
    THEN RqProcessorError("get_encoder", "Cannot read input file",
                          "os error")
    ELSE LET source_size == Len(input)
             config == with_defaults(source_size, settings.symbol_size)
         IN  Ok([enc |-> EncoderNew(input, config),
                 repair_symbols |->
                     FromWide(repair_symbols_num(settings.symbol_size,
                                  settings.redundancy_factor,
                                  ToWide(source_size)))])

output_location(sub, io) ==
    IF io = "mkdir"
    THEN RqProcessorError("output_location", "Cannot create output location",
                          "os error")
    ELSE Ok(IF sub = "meta" THEN MetaPath ELSE SymbolsPath)

(***************************************************************************)
(* RPC handlers: the reply built from the Processor's return value         *)
(***************************************************************************)
InternalStatus == [status |-> "internal", message |-> "Internal error"]

encode_meta_data_reply(res) ==
    IF res.kind = "Ok"
    THEN [status |-> "ok",
          encoder_parameters |-> res.value.meta.encoder_parameters,
          symbols_count |-> res.value.meta.source_symbols
                                + res.value.meta.repair_symbols,
          path |-> res.value.path]
    ELSE InternalStatus

\* the Encode reply carrying the error's message
encode_reply_leaky(res) ==
    IF res.kind = "Ok"
    THEN [status |-> "ok",
          encoder_parameters |-> res.value.meta.encoder_parameters,
          symbols_count |-> res.value.meta.source_symbols
                                + res.value.meta.repair_symbols,
          path |-> res.value.path]
    ELSE [status |-> "internal", message |-> res.msg]

encode_reply(res) ==
    IF res.kind = "Ok"
    THEN [status |-> "ok",
          encoder_parameters |-> res.value.meta.encoder_parameters,
          symbols_count |-> res.value.meta.source_symbols
                                + res.value.meta.repair_symbols,
          path |-> res.value.path]
    ELSE InternalStatus

decode_reply(res) ==
    IF res.kind = "Ok"
    THEN [status |-> "ok", path |-> res.value]
    ELSE InternalStatus

Handler(kind, res) ==
    IF kind = "create_metadata" THEN encode_meta_data_reply(res)
    ELSE IF kind = "encode" THEN encode_reply(res)
    ELSE decode_reply(res)

\* the operation o returns res to its handler, which replies
Return(o, res) ==
    /\ op' = Idle
    /\ last' = [op |-> o, result |-> res]
    /\ reply' = Handler(o.kind, res)

\* the operation o unwinds: nothing is returned and no reply is built
Unwind(o) ==
    /\ op' = Idle
    /\ last' = [op |-> o, result |-> Panicked]
    /\ reply' = NoReply

(***************************************************************************)
(* encode                                                                  *)
(***************************************************************************)
\* the metadata with the repair count not taken off the packet count
EncoderMetaData_whole(enc, count, repair_symbols) ==
    [encoder_parameters |-> OtiSerialize(enc.config),
     source_symbols |-> count,
     repair_symbols |-> repair_symbols]

EncoderMetaData(enc, count, repair_symbols) ==
    [encoder_parameters |-> OtiSerialize(enc.config),
     source_symbols |-> count - repair_symbols,
     repair_symbols |-> repair_symbols]

\* the failures of the steps before the loop, in the order of the steps
IoStart == {"ok", "open", "metadata", "read", "mkdir"}

EncodeStart ==
    /\ op.kind = "idle"
    /\ served < MaxRequests
    /\ served' = served + 1
    /\ \E io \in IoStart :
         LET o == [kind |-> "encode", path |-> InputPath,
                   empty0 |-> symbols = EmptyDir, written |-> <<>>]
             e == get_encoder(IF io = "mkdir" THEN "ok" ELSE io)
             loc == output_location("symbols", io)
         IN  IF e.kind = "Err"
             THEN Return(o, e)
             ELSE IF loc.kind = "Err"
             THEN Return(o, loc)
             ELSE /\ op' = [kind |-> "encode", path |-> InputPath,
                            empty0 |-> symbols = EmptyDir,
                            written |-> <<>>,
                            enc |-> e.value.enc,
                            repair_symbols |-> e.value.repair_symbols,
                            symbols |-> get_encoded_packets(e.value.enc,
                                            e.value.repair_symbols),
                            i |-> 1]
                  /\ last' = NoLast
                  /\ reply' = NoReply
    /\ UNCHANGED <<aside, settings, input, symbols, meta, restored, returned>>

\* one iteration of `for symbol in &symbols`
EncodeWrite ==
    /\ op.kind = "encode"
    /\ op.i <= Len(op.symbols)
    /\ \E io \in IoWrite :
         LET pkt == PacketSerialize(op.symbols[op.i])
             name == symbols_id(pkt)
             w == create_and_write("encode", io)
         IN  /\ symbols' = IF io = "ok" THEN Put(symbols, name, pkt)
                           ELSE IF io = "write"
                           THEN Put(symbols, name, TruncatedSymbol)
                           ELSE symbols
             /\ IF w.kind = "Err"
                THEN Return(op, w)
                ELSE /\ op' = [op EXCEPT !.i = @ + 1,
                                         !.written = Append(@, name)]
                     /\ UNCHANGED <<last, reply>>
    /\ UNCHANGED <<aside, settings, input, meta, restored, returned, served>>

EncodeReturn ==
    /\ op.kind = "encode"
    /\ op.i > Len(op.symbols)
    /\ LET md == EncoderMetaData(op.enc, Len(op.symbols), op.repair_symbols)
       IN  /\ Return(op, Ok([meta |-> md, path |-> SymbolsPath]))
           /\ returned' = [some |-> TRUE, meta |-> md,
                           all |-> returned.all \cup {md}]
    /\ UNCHANGED <<aside, settings, input, symbols, meta, restored, served>>

(***************************************************************************)
(* create_metadata                                                         *)
(***************************************************************************)
\* Uuid::to_string
GuidString(guid) == <<"uuid", guid>>

\* Uuid::new_v4: 122 random bits, taken never to repeat a value in use.
\* GUIDs are opaque, so the least unused one stands for any fresh value.
new_v4(used) == {g \in Guids \ used : \A h \in Guids \ used : g <= h}

\* every replica written under one and the same name
OutputFileName_fixed(guid) == GuidString(0)

\* output_path.join(guid.to_string())
OutputFileName(guid) == GuidString(guid)

\* serde_json::to_string(&rq_ids_file): an object of the four fields
ManifestJson(f) ==
    [id |-> f.id, block_hash |-> f.block_hash, pastel_id |-> f.pastel_id,
     symbol_identifiers |-> f.symbol_identifiers]

\* the record of a replica with its id left as it was
WithId_stale(rq_ids_file, guid) == rq_ids_file

\* the record of one replica: rq_ids_file.id = guid.to_string()
WithId(rq_ids_file, guid) == [rq_ids_file EXCEPT !.id = GuidString(guid)]

\* the identifiers of all packets but the last
SymbolNames_less(packets) ==
    [i \in 1..(Len(packets) - 1) |-> symbols_id(PacketSerialize(packets[i]))]

\* the identifiers collected last packet first
SymbolNames_reversed(packets) ==
    [i \in 1..Len(packets) |->
        symbols_id(PacketSerialize(packets[Len(packets) + 1 - i]))]

\* names: the identifier of each enumerated packet, in enumeration order
SymbolNames(packets) ==
    [i \in 1..Len(packets) |-> symbols_id(PacketSerialize(packets[i]))]

MetaStart(files_number, block_hash, pastel_id) ==
    /\ op.kind = "idle"
    /\ served < MaxRequests
    /\ served' = served + 1
    /\ \E io \in IoStart :
         LET o == [kind |-> "create_metadata", path |-> InputPath,
                   files_number |-> files_number,
                   empty0 |-> meta = EmptyDir, written |-> <<>>]
             e == get_encoder(IF io = "mkdir" THEN "ok" ELSE io)
             loc == output_location("meta", io)
         IN  IF e.kind = "Err"
             THEN Return(o, e)
             ELSE IF loc.kind = "Err"
             THEN Return(o, loc)
             ELSE LET names == SymbolNames(get_encoded_packets(
                                   e.value.enc, e.value.repair_symbols))
                  IN  /\ op' = [kind |-> "create_metadata",
                                path |-> InputPath,
                                files_number |-> files_number,
                                empty0 |-> meta = EmptyDir,
                                written |-> <<>>,
                                enc |-> e.value.enc,
                                repair_symbols |-> e.value.repair_symbols,
                                names_len |-> Len(names),
                                rq_ids_file |->
                                    [id |-> "", block_hash |-> block_hash,
                                     pastel_id |-> pastel_id,
                                     symbol_identifiers |-> names],
                                n |-> 0]
                      /\ last' = NoLast
                      /\ reply' = NoReply
    /\ UNCHANGED <<aside, settings, input, symbols, meta, restored, returned>>

\* one iteration of `for _n in 0..files_number`
MetaWrite ==
    /\ op.kind = "create_metadata"
    /\ op.n < op.files_number
    /\ \E guid \in new_v4({g \in Guids : GuidString(g) \in DOMAIN meta}),
          io \in IoWrite :
         LET f == WithId(op.rq_ids_file, guid)
             j == ManifestJson(f)
             name == OutputFileName(guid)
             w == create_and_write("create_metadata", io)
         IN  /\ meta' = IF io = "ok" THEN Put(meta, name, j)
                        ELSE IF io = "write"
                        THEN Put(meta, name, TruncatedManifest)
                        ELSE meta
             /\ IF w.kind = "Err"
                THEN Return([op EXCEPT !.rq_ids_file = f], w)
                ELSE /\ op' = [op EXCEPT !.n = @ + 1, !.rq_ids_file = f,
                                         !.written = Append(@, name)]
                     /\ UNCHANGED <<last, reply>>
    /\ UNCHANGED <<aside, settings, input, symbols, restored, returned, served>>

MetaReturn ==
    /\ op.kind = "create_metadata"
    /\ op.n >= op.files_number
    /\ LET md == EncoderMetaData(op.enc, op.names_len, op.repair_symbols)
       IN  /\ Return(op, Ok([meta |-> md, path |-> MetaPath]))
           /\ returned' = [returned EXCEPT !.all = @ \cup {md}]
    /\ UNCHANGED <<aside, settings, input, symbols, meta, restored, served>>

(***************************************************************************)
(* decode                                                                  *)
(***************************************************************************)
Zeros12 == [i \in 1..12 |-> 0]

\* the copy into cfg stopping one byte short of the symbol size
SetFrom_short(encoder_parameters) ==
    [i \in 1..12 |-> IF i <= Len(encoder_parameters) /\ i < 8
                     THEN encoder_parameters[i] ELSE 0]

\* cfg.iter_mut().set_from(encoder_parameters.iter().cloned())
SetFrom(encoder_parameters) ==
    [i \in 1..12 |-> IF i <= Len(encoder_parameters)
                     THEN encoder_parameters[i] ELSE 0]

\* the argument checks without the one on encoder_parameters
DecodeArguments_path_only(encoder_parameters, path) ==
    IF path = ""
    THEN RqProcessorError("decode", "Input symbol's path is empty", "")
    ELSE Ok(<<>>)

\* the argument checks with a strict check of the length
DecodeArguments_strict(encoder_parameters, path) ==
    IF path = ""
    THEN RqProcessorError("decode", "Input symbol's path is empty", "")
    ELSE IF Len(encoder_parameters) # 12
    THEN RqProcessorError("decode", "encoder_parameters are empty", "")
    ELSE Ok(<<>>)

\* the argument checks at the head of decode
DecodeArguments(encoder_parameters, path) ==
    IF path = ""
    THEN RqProcessorError("decode", "Input symbol's path is empty", "")
    ELSE IF Len(encoder_parameters) = 0
    THEN RqProcessorError("decode", "encoder_parameters are empty", "")
    ELSE Ok(<<>>)

IoDir == {"ok", "read_dir"}

DecodeStart(encoder_parameters, path) ==
    /\ op.kind = "idle"
    /\ served < MaxRequests
    /\ served' = served + 1
    /\ LET o == [kind |-> "decode", path |-> path,
                 encoder_parameters |-> encoder_parameters,
                 restored0 |-> restored,
                 accessed |-> FALSE, listed |-> FALSE, fed |-> {},
                 bad |-> {}, completed |-> FALSE]
           a == DecodeArguments(encoder_parameters, path)
       IN  IF a.kind = "Err"
           THEN Return(o, a)
           ELSE \E io \in IoDir :
                  IF io = "read_dir"
                  THEN Return([o EXCEPT !.accessed = TRUE],
                              RqProcessorError("decode",
                                  "Cannot get list of input files from",
                                  "os error"))
                  ELSE /\ op' = [kind |-> "decode", path |-> path,
                                 encoder_parameters |-> encoder_parameters,
                                 restored0 |-> restored,
                                 accessed |-> TRUE, listed |-> TRUE,
                                 fed |-> {}, bad |-> {},
                                 completed |-> FALSE,
                                 dec |-> DecoderNew(OtiDeserialize(
                                             SetFrom(encoder_parameters))),
                                 remaining |-> DOMAIN symbols]
                       /\ last' = NoLast
                       /\ reply' = NoReply
    /\ UNCHANGED <<aside, settings, input, symbols, meta, restored, returned>>

IoEntry == {"entry", "open", "read"}

\* EncodingPacket::deserialize returns a packet, not a Result: on bytes that
\* are no packet it either unwinds or yields a packet the decoder cannot use
Malformed == {"unwind", "useless"}

\* the directory entry cannot be had or its file cannot be read
DecodeEntryFails ==
    /\ op.kind = "decode"
    /\ \E name \in op.remaining, io \in IoEntry :
         LET o1 == [op EXCEPT !.remaining = @ \ {name}]
         IN  Return(o1, IF io = "entry"
                        THEN RqProcessorError("decode",
                                 "Cannot get file path", "os error")
                        ELSE open_and_read("decode", io))
    /\ UNCHANGED <<aside, settings, input, symbols, meta, restored, returned,
                   served>>

\* the entry's bytes are no serialized packet
DecodeEntryMalformed ==
    /\ op.kind = "decode"
    /\ \E name \in op.remaining, mal \in Malformed :
         LET o2 == [op EXCEPT !.remaining = @ \ {name},
                              !.bad = @ \cup {name}]
         IN  /\ ~WellFormed(symbols[name])
             /\ IF mal = "unwind"
                THEN Unwind(o2)
                ELSE /\ op' = [o2 EXCEPT !.fed = @ \cup {name}]
                     /\ UNCHANGED <<last, reply>>
    /\ UNCHANGED <<aside, settings, input, symbols, meta, restored, returned,
                   served>>

\* the entry's packet is fed and the decoder needs more
DecodeEntryFeeds ==
    /\ op.kind = "decode"
    /\ \E name \in op.remaining :
         LET r == DecoderDecode(op.dec, PacketDeserialize(symbols[name]))
         IN  /\ WellFormed(symbols[name])
             /\ r.result = <<>>
             /\ op' = [op EXCEPT !.remaining = @ \ {name},
                                 !.fed = @ \cup {name},
                                 !.dec = r.dec]
    /\ UNCHANGED <<aside, settings, input, symbols, meta, restored, returned,
                   served, last, reply>>

\* restored_file placed inside the directory that path names
with_file_name_inside(path, file_name) == "test/symbols/restored_file"

\* Path::with_file_name: the last component of path replaced by file_name
with_file_name(path, file_name) ==
    IF path = SymbolsPath /\ file_name = "restored_file"
    THEN RestoredPath
    ELSE file_name

\* the entry's packet completes the decoder: the object is written out
DecodeEntryCompletes ==
    /\ op.kind = "decode"
    /\ \E name \in op.remaining, iow \in IoWrite :
         LET r == DecoderDecode(op.dec, PacketDeserialize(symbols[name]))
             o3 == [op EXCEPT !.remaining = @ \ {name},
                              !.fed = @ \cup {name},
                              !.dec = r.dec,
                              !.completed = TRUE]
             w == create_and_write("decode", iow)
         IN  /\ WellFormed(symbols[name])
             /\ r.result # <<>>
             /\ restored' = IF iow = "ok" THEN FileOf(r.result[1])
                            ELSE IF iow = "write" THEN FileOf(<<>>)
                            ELSE restored
             /\ Return(o3, IF w.kind = "Err" THEN w
                            ELSE Ok(with_file_name(op.path, "restored_file")))
    /\ UNCHANGED <<aside, settings, input, symbols, meta, returned, served>>

\* one iteration of `for symbol_file in symbol_files`, on any entry the
\* directory has not yet yielded
DecodeEntry ==
    \/ DecodeEntryFails
    \/ DecodeEntryMalformed
    \/ DecodeEntryFeeds
    \/ DecodeEntryCompletes

\* running out of entries reported as a success
Exhausted_ok(path) == Ok(RestoredPath)

\* the value returned once the loop has run out of entries
Exhausted(path) ==
    RqProcessorError("decode",
        "Cannot restore the original file from symbols at", "")

DecodeExhausted ==
    /\ op.kind = "decode"
    /\ op.remaining = {}
    /\ Return(op, Exhausted(op.path))
    /\ UNCHANGED <<aside, settings, input, symbols, meta, restored, returned,
                   served>>

(***************************************************************************)
(* The surroundings: symbol files get lost or damaged between requests     *)
(***************************************************************************)
LoseSymbol ==
    /\ op.kind = "idle"
    /\ served < MaxRequests
    /\ \E name \in DOMAIN symbols : symbols' = Remove(symbols, name)
    /\ last' = NoLast
    /\ reply' = NoReply
    /\ UNCHANGED <<aside, settings, input, meta, restored, op, returned,
                   served>>

PlantBogus ==
    /\ op.kind = "idle"
    /\ served < MaxRequests
    /\ symbols_id(Garbage) \notin DOMAIN symbols
    /\ symbols' = Put(symbols, symbols_id(Garbage), Garbage)
    /\ last' = NoLast
    /\ reply' = NoReply
    /\ UNCHANGED <<aside, settings, input, meta, restored, op, returned,
                   served>>

(***************************************************************************)
(* The service                                                             *)
(***************************************************************************)
\* the parameters with a byte appended to them
Longer(encoder_parameters) == Append(encoder_parameters, 255)

\* the parameters cut off before the symbol size field
Shorter(encoder_parameters) == SubSeq(encoder_parameters, 1, 5)

\* nothing, zeros, and what Encode returned: as returned, with a byte
\* appended, and cut short
EncoderParameterInputs ==
    {<<>>, Zeros12}
    \cup (IF returned.some
          THEN {returned.meta.encoder_parameters,
                Longer(returned.meta.encoder_parameters),
                Shorter(returned.meta.encoder_parameters)}
          ELSE {})

PathInputs == {"", SymbolsPath}

Init ==
    /\ calc = CalcIdle
    /\ startup = StartupIdle
    /\ par = ParIdle
    /\ settings \in [symbol_size : 1..MaxSymbolSize,
                     redundancy_factor : 0..MaxRedundancy]
    /\ input \in SourceFiles
    /\ symbols = EmptyDir
    /\ meta = EmptyDir
    /\ restored = NoFile
    /\ op = Idle
    /\ last = NoLast
    /\ reply = NoReply
    /\ returned = NoneReturned
    /\ served = 0

Next ==
    \/ EncodeStart
    \/ EncodeWrite
    \/ EncodeReturn
    \/ \E n \in 0..MaxFilesNumber, b \in BlockHashes, p \in PastelIds :
           MetaStart(n, b, p)
    \/ MetaWrite
    \/ MetaReturn
    \/ \E e \in EncoderParameterInputs, p \in PathInputs : DecodeStart(e, p)
    \/ DecodeEntry
    \/ DecodeExhausted
    \/ LoseSymbol
    \/ PlantBogus

Spec == Init /\ [][Next]_vars

(***************************************************************************)
(* Properties of the service                                               *)
(***************************************************************************)
\* the operation of this kind has just returned
Done(kind) == op.kind = "idle" /\ last.op.kind = kind

Range(s) == {s[i] : i \in DOMAIN s}

\* an error that came from the operating system
IoError(res) == res.kind = "Err" /\ res.prev_msg = "os error"

\* the serialized packets an encode of the source file enumerates
EncodedPackets ==
    LET config == with_defaults(Len(input), settings.symbol_size)
        K == FromWide(repair_symbols_num(settings.symbol_size,
                          settings.redundancy_factor, ToWide(Len(input))))
    IN  {PacketSerialize(p) :
            p \in Range(get_encoded_packets(EncoderNew(input, config), K))}

\* the directory holds packets of the encode and nothing else
HoldsPacketsOnly == \A name \in DOMAIN symbols : symbols[name] \in EncodedPackets

\* C1: a decode of a directory that holds only packets of encode(F), at
\* least source_symbols of them, called with the encoder_parameters that
\* encode returned and meeting no I/O failure, returns Ok and leaves a
\* restored_file whose bytes are those of F, in whatever order the entries
\* came.
RoundTrip ==
    (/\ Done("decode")
     /\ returned.some
     /\ last.op.encoder_parameters = returned.meta.encoder_parameters
     /\ last.op.path = SymbolsPath
     /\ HoldsPacketsOnly
     /\ Cardinality(DOMAIN symbols) >= returned.meta.source_symbols
     /\ ~IoError(last.result))
    => /\ last.result = Ok(RestoredPath)
       /\ restored = FileOf(input)

\* a file of two symbols has been restored from exactly two packets, the
\* first source packet not among them
RoundTripFromRepair ==
    /\ Done("decode")
    /\ last.result = Ok(RestoredPath)
    /\ restored = FileOf(input)
    /\ HoldsPacketsOnly
    /\ returned.some /\ returned.meta.source_symbols = 2
    /\ Cardinality(DOMAIN symbols) = 2
    /\ \A name \in DOMAIN symbols : symbols[name][1] # 0

\* C3: after a successful encode into an empty symbols/ directory,
\* source_symbols + repair_symbols, the symbols_count of the reply and the
\* number of packets enumerated all equal the number of files in symbols/.
CountLaw ==
    (Done("encode") /\ last.result.kind = "Ok" /\ last.op.empty0)
    => LET md == last.result.value.meta
       IN  /\ md.source_symbols + md.repair_symbols
                  = Cardinality(DOMAIN symbols)
           /\ reply.symbols_count = Cardinality(DOMAIN symbols)
           /\ Len(last.op.symbols) = Cardinality(DOMAIN symbols)

\* an encode into an empty directory has returned with source and repair
\* packets on disk
CountLawReached ==
    /\ Done("encode") /\ last.result.kind = "Ok" /\ last.op.empty0
    /\ last.result.value.meta.source_symbols >= 2
    /\ last.result.value.meta.repair_symbols >= 2

ManifestConsistency ==
    LET o == IF op.kind = "create_metadata" THEN op ELSE last.op
    IN  o.kind = "create_metadata" =>
          /\ \A i, j \in DOMAIN o.written :
                LET a == meta[o.written[i]]
                    b == meta[o.written[j]]
                IN  /\ a.block_hash = b.block_hash
                    /\ a.pastel_id = b.pastel_id
                    /\ a.symbol_identifiers = b.symbol_identifiers
                    /\ (i # j => a.id # b.id)

\* a call has written two manifests
TwoManifests ==
    /\ Done("create_metadata") /\ last.result.kind = "Ok"
    /\ Len(last.op.written) = 2
    /\ Len(meta[last.op.written[1]].symbol_identifiers) >= 2

\* EncoderMetaData as the source file and the settings determine it
MetaDataOf(file, s) ==
    LET K == FromWide(repair_symbols_num(s.symbol_size, s.redundancy_factor,
                                         ToWide(Len(file))))
    IN  [encoder_parameters |-> OtiSerialize(with_defaults(Len(file),
                                                           s.symbol_size)),
         source_symbols |-> int_div_ceil(Len(file), s.symbol_size),
         repair_symbols |-> K]

\* C6: a successful create_metadata with files_number = N into an empty
\* meta/ leaves exactly N files, each named by the id of the manifest in
\* it; with N = 0 the call fails only where the encoder or the output
\* directory fails, writes nothing, and returns the EncoderMetaData that
\* the file and the settings determine, as for every N.
ManifestFiles ==
    Done("create_metadata") =>
      /\ (last.result.kind = "Ok" /\ last.op.empty0) =>
            /\ Cardinality(DOMAIN meta) = last.op.files_number
            /\ \A name \in DOMAIN meta : meta[name].id = name
      /\ last.result.kind = "Ok" =>
            last.result.value.meta = MetaDataOf(input, settings)
      /\ last.op.files_number = 0 =>
            /\ last.op.written = <<>>
            /\ (last.op.empty0 => meta = EmptyDir)
            /\ (last.result.kind = "Err" =>
                  last.result.func \in {"get_encoder", "output_location"})

\* create_metadata has returned Ok for files_number = 0
NoReplicas ==
    /\ Done("create_metadata") /\ last.result.kind = "Ok"
    /\ last.op.files_number = 0 /\ last.op.empty0
    /\ meta = EmptyDir

\* C7: decode with an empty path or empty encoder_parameters returns the
\* argument error without a filesystem access: no directory listing, no
\* packet fed, restored_file as it was.
DecodeRejectsEmptyArguments ==
    (Done("decode")
     /\ (last.op.path = "" \/ last.op.encoder_parameters = <<>>))
    => /\ last.result.kind = "Err"
       /\ last.result.func = "decode"
       /\ last.result.msg \in {"Input symbol's path is empty",
                               "encoder_parameters are empty"}
       /\ ~last.op.accessed
       /\ ~last.op.listed
       /\ last.op.fed = {}
       /\ restored = last.op.restored0

\* decode has rejected empty encoder_parameters for a directory with
\* symbol files in it
EmptyParametersRejected ==
    /\ Done("decode")
    /\ last.op.encoder_parameters = <<>> /\ last.op.path = SymbolsPath
    /\ DOMAIN symbols # {}
    /\ last.result.msg = "encoder_parameters are empty"

\* C8: a decode that has fed every entry of the directory without the
\* decoder completing returns the exhausted error and leaves restored_file
\* as it was; and decode returns Ok only with the decoder complete.
ExhaustedFails ==
    Done("decode") =>
      /\ (/\ last.op.listed
          /\ last.op.fed = DOMAIN symbols
          /\ ~last.op.completed)
         => /\ last.result = RqProcessorError("decode",
                   "Cannot restore the original file from symbols at", "")
            /\ restored = last.op.restored0
      /\ last.result.kind = "Ok" =>
            /\ last.op.completed
            /\ DecoderComplete(last.op.dec)

\* decode has run out of entries after feeding some packets
ExhaustedReached ==
    /\ Done("decode")
    /\ last.op.listed /\ ~last.op.completed
    /\ last.op.fed = DOMAIN symbols /\ last.op.fed # {}
    /\ HoldsPacketsOnly
    /\ last.result.kind = "Err"

\* C9 as stated: once decode reaches an entry that cannot be read or whose
\* bytes are no serialized packet, it returns an error value there: it
\* feeds no further entry and writes no restored_file.
FailFastOnBadEntry ==
    /\ (op.kind = "decode" => op.bad = {})
    /\ (Done("decode") /\ last.op.bad # {}) =>
          /\ last.result.kind = "Err"
          /\ restored = last.op.restored0

\* C10: a handler replies with success exactly when the operation returned
\* Ok, with the fields of the returned value, and replies to every error
\* with the one internal status and the fixed text.
OpaqueErrors ==
    op.kind = "idle" =>
      /\ last.result.kind = "Ok" =>
            /\ reply.status = "ok"
            /\ reply.path = IF last.op.kind = "decode"
                            THEN last.result.value
                            ELSE last.result.value.path
      /\ last.result.kind = "Err" =>
            reply = [status |-> "internal", message |-> "Internal error"]
      /\ reply.status = "ok" => last.result.kind = "Ok"

\* Encode has been answered with the internal status after a failed write
WriteErrorHidden ==
    /\ Done("encode")
    /\ last.result.kind = "Err"
    /\ last.result.msg = "Cannot write into the file"
    /\ reply = [status |-> "internal", message |-> "Internal error"]

(***************************************************************************)
(* The repair count policy applied to one triple of arguments              *)
(***************************************************************************)
InitPolicy ==
    /\ calc \in [pc : {"call"}, S : PolicySizes, R : PolicyFactors,
                 L : PolicyLens]
    /\ startup = StartupIdle
    /\ par = ParIdle
    /\ settings = [symbol_size |-> DefaultSymbolSize,
                   redundancy_factor |-> DefaultRedundancy]
    /\ input = <<0>>
    /\ symbols = EmptyDir
    /\ meta = EmptyDir
    /\ restored = NoFile
    /\ op = Idle
    /\ last = NoLast
    /\ reply = NoReply
    /\ returned = NoneReturned
    /\ served = 0

RepairCall ==
    /\ calc.pc = "call"
    /\ calc' = [pc |-> "ret", S |-> calc.S, R |-> calc.R, L |-> calc.L,
                out |-> repair_symbols_num(calc.S, calc.R, calc.L)]
    /\ UNCHANGED <<startup, par, settings, input, symbols, meta, restored,
                   op, last, reply, returned, served>>

NextPolicy == RepairCall

SpecPolicy == InitPolicy /\ [][NextPolicy]_vars

(***************************************************************************)
(* C2                                                                      *)
(***************************************************************************)
\* ceil(L * (R - 1) / S) over the integers: undefined for S = 0, negative
\* for R = 0 (L > S >= 1 makes it at most -1), else a natural number
ExactCeil(S, R, L) ==
    IF S = 0 THEN [kind |-> "undefined"]
    ELSE IF R = 0 THEN [kind |-> "negative", mag |-> WDivSmall(L, S)]
    ELSE [kind |-> "natural", mag |-> WCeilDiv(WMulSmall(L, R - 1), S)]

\* C2 as stated: repair_symbols_num returns R when L <= S and otherwise
\* exactly ceil(L*(R-1)/S), for every S, R and L.
RepairFormulaAsStated ==
    calc.pc = "ret" =>
        IF WLeq(calc.L, ToWide(calc.S))
        THEN calc.out = ToWide(calc.R)
        ELSE ExactCeil(calc.S, calc.R, calc.L) =
                 [kind |-> "natural", mag |-> calc.out]

\* C2 amended: repair_symbols_num returns R when L <= S; otherwise it
\* returns ceil(L*(R-1)/S) saturated to the range of u32: 0 when R = 0,
\* min(ceil(L*(R-1)/S), 2^32 - 1) when R >= 1 and S >= 1, and for S = 0
\* the value 2^32 - 1 when R >= 2 and 0 when R = 1.  The ceiling is stated
\* by its bounds, (out - 1) * S < L * (R - 1) <= out * S.
RepairFormulaSaturating ==
    calc.pc = "ret" =>
        LET n == WMulSmall(calc.L, calc.R - 1)
            outS == WMulSmall(calc.out, calc.S)
        IN  IF WLeq(calc.L, ToWide(calc.S)) THEN calc.out = ToWide(calc.R)
            ELSE IF calc.R = 0 THEN calc.out = WZero
            ELSE IF calc.S = 0
                 THEN calc.out = (IF calc.R >= 2 THEN U32_MAX ELSE WZero)
            ELSE /\ WLeq(calc.out, U32_MAX)
                 /\ WLess(outS, WAdd(n, ToWide(calc.S)))
                 /\ (WLeq(n, outS) \/ calc.out = U32_MAX)

\* the policy has been applied to a length whose quotient exceeds 2^32 - 1
RepairSaturated ==
    /\ calc.pc = "ret" /\ calc.S >= 1 /\ calc.R >= 2
    /\ calc.out = U32_MAX
    /\ WLess(U32_MAX, WCeilDiv(WMulSmall(calc.L, calc.R - 1), calc.S))

(***************************************************************************)
(* Further properties of the service                                       *)
(***************************************************************************)
\* C12: the first insertion on which the decoder reports completion ends
\* decode: no decode in progress holds a complete decoder, so no entry is
\* read or fed after the completing one; the restored buffer is written to
\* the sibling restored_file and that path is returned, unless the write
\* itself fails.
CompletionEndsDecode ==
    /\ op.kind = "decode" => (~op.completed /\ ~DecoderComplete(op.dec))
    /\ (Done("decode") /\ last.op.completed) =>
          /\ DecoderComplete(last.op.dec)
          /\ last.op.fed \cap last.op.remaining = {}
          /\ \/ /\ last.result = Ok(RestoredPath)
                /\ restored = FileOf(Reconstruct(last.op.dec))
             \/ /\ IoError(last.result)
                /\ last.result.func = "decode"
                /\ last.result.msg \in {"Cannot create file",
                                        "Cannot write into the file"}

\* decode has completed and returned with entries of the directory left
\* unread
CompletedEarly ==
    /\ Done("decode") /\ last.op.completed
    /\ last.result = Ok(RestoredPath)
    /\ restored = FileOf(input)
    /\ last.op.remaining # {}
    /\ Cardinality(last.op.fed) >= 2

\* C13: the decoder of decode is built from the 12 bytes that are the
\* encoder_parameters cut off after byte 12 and padded with zeros up to
\* byte 12.  So parameters longer than 12 bytes give the decoder, and with
\* it the outcome, of their first 12 bytes: appended to what Encode
\* returned they restore the file as C1 has it; and non-empty parameters
\* shorter than 12 bytes pass the argument checks.
DecoderFromFirst12 ==
    LET o == IF op.kind = "decode" THEN op ELSE last.op
        p == o.encoder_parameters
        cfg == [i \in 1..12 |-> IF i <= Len(p) THEN p[i] ELSE 0]
    IN  /\ (o.kind = "decode" /\ o.listed) =>
              /\ o.dec.config = OtiDeserialize(cfg)
              /\ Len(p) >= 12 =>
                    o.dec.config = OtiDeserialize(SubSeq(p, 1, 12))
        /\ (Done("decode") /\ o.path # "" /\ Len(p) >= 1) => o.accessed
        /\ (/\ Done("decode")
            /\ returned.some
            /\ Len(p) > 12
            /\ SubSeq(p, 1, 12) = returned.meta.encoder_parameters
            /\ o.path = SymbolsPath
            /\ HoldsPacketsOnly
            /\ Cardinality(DOMAIN symbols) >= returned.meta.source_symbols
            /\ ~IoError(last.result))
           => /\ last.result = Ok(RestoredPath)
              /\ restored = FileOf(input)

\* decode has restored the file from parameters of 13 bytes
LongParametersDecoded ==
    /\ Done("decode")
    /\ Len(last.op.encoder_parameters) = 13
    /\ last.result = Ok(RestoredPath)
    /\ restored = FileOf(input)

\* C14: the files that encode and create_metadata have written so far are
\* on disk with their full contents, also after a later write has failed;
\* when the write of the k-th file fails the operation returns the error
\* with exactly k - 1 files written, and a directory that was empty at the
\* start holds nothing besides them and, at most, the k-th file.
NoRollback ==
    LET o == IF op.kind = "idle" THEN last.op ELSE op
    IN  /\ o.kind = "encode" =>
              /\ \A j \in DOMAIN o.written :
                    /\ o.written[j] \in DOMAIN symbols
                    /\ symbols[o.written[j]] = PacketSerialize(o.symbols[j])
              /\ (Done("encode") /\ IoError(last.result)
                      /\ last.result.func = "encode") =>
                    /\ o.i <= Len(o.symbols)
                    /\ Len(o.written) = o.i - 1
                    /\ o.empty0 =>
                          DOMAIN symbols \subseteq
                              Range(o.written) \cup
                              {symbols_id(PacketSerialize(o.symbols[o.i]))}
        /\ o.kind = "create_metadata" =>
              /\ \A j \in DOMAIN o.written :
                    /\ o.written[j] \in DOMAIN meta
                    /\ meta[o.written[j]] # TruncatedManifest
                    /\ meta[o.written[j]] =
                          ManifestJson([o.rq_ids_file EXCEPT
                                           !.id = o.written[j]])
              /\ (Done("create_metadata") /\ IoError(last.result)
                      /\ last.result.func = "create_metadata") =>
                    /\ o.n < o.files_number
                    /\ Len(o.written) = o.n
                    /\ o.empty0 =>
                          /\ Range(o.written) \subseteq DOMAIN meta
                          /\ Cardinality(DOMAIN meta) <= o.n + 1

\* the write of the second symbol file has failed after the first was
\* written
SecondWriteFailed ==
    /\ Done("encode")
    /\ last.result.kind = "Err"
    /\ last.result.msg = "Cannot write into the file"
    /\ Len(last.op.written) = 1
    /\ last.op.empty0
    /\ Cardinality(DOMAIN symbols) = 2

\* the packets in the order the encoder of the source file emits them
Emitted ==
    LET config == with_defaults(Len(input), settings.symbol_size)
        K == FromWide(repair_symbols_num(settings.symbol_size,
                          settings.redundancy_factor, ToWide(Len(input))))
    IN  get_encoded_packets(EncoderNew(input, config), K)

\* C15: in every manifest that create_metadata has written in full, the
\* i-th element of symbol_identifiers is the identifier of the serialized
\* i-th packet emitted, and there are source_symbols + repair_symbols of
\* them; and the files that encode has created so far are those of the
\* first packets emitted, in the order of emission.
EmissionOrder ==
    LET o == IF op.kind = "idle" THEN last.op ELSE op
    IN  /\ \A name \in DOMAIN meta :
              meta[name] # TruncatedManifest =>
                /\ Len(meta[name].symbol_identifiers) = Len(Emitted)
                /\ \A i \in 1..Len(Emitted) :
                      meta[name].symbol_identifiers[i] =
                          symbols_id(PacketSerialize(Emitted[i]))
        /\ (Done("create_metadata") /\ last.result.kind = "Ok") =>
              Len(o.rq_ids_file.symbol_identifiers) =
                  last.result.value.meta.source_symbols
                      + last.result.value.meta.repair_symbols
        /\ o.kind = "encode" =>
              /\ Len(o.written) <= Len(Emitted)
              /\ \A i \in 1..Len(o.written) :
                    o.written[i] = symbols_id(PacketSerialize(Emitted[i]))

\* a manifest of three identifiers is on disk and encode has created the
\* three symbol files
ThreeEmitted ==
    /\ Done("encode") /\ last.result.kind = "Ok"
    /\ Len(last.op.written) = 3
    /\ \E name \in DOMAIN meta :
          /\ meta[name] # TruncatedManifest
          /\ Len(meta[name].symbol_identifiers) = 3

\* C16: all the EncoderMetaData that encode and create_metadata have
\* returned for the source file under the settings are one and the same
\* value, whatever files_number, block_hash and pastel_id were and however
\* often either operation ran.
SameMetaData ==
    /\ Cardinality(returned.all) <= 1
    /\ ((Done("encode") \/ Done("create_metadata"))
            /\ last.result.kind = "Ok") =>
          returned.all = {last.result.value.meta}

\* create_metadata has returned after an encode of the same file
MetaDataAfterEncode ==
    /\ Done("create_metadata") /\ last.result.kind = "Ok"
    /\ returned.some
    /\ last.op.files_number = 2
    /\ last.result.value.meta.encoder_parameters
           = returned.meta.encoder_parameters
    /\ last.result.value.meta.source_symbols = 2

(***************************************************************************)
(* Startup: ServiceSettings::new (src/app.rs).  The command line is the    *)
(* options given with their values; a config file is its keys with their   *)
(* values, or Missing when it cannot be read.                              *)
(***************************************************************************)
DefaultConfigPath == "~/.pastel/rqservice"

OtherConfigPath == "examples/rqconfig.toml"

Missing == [missing |-> TRUE]

NoKeys == <<>>

\* Arg::with_name(...) in cmd_args_new: the options the parser knows
Declared == {"config", "grpc-service"}

SettingNames == {"grpc-service", "symbol-size", "redundancy-factor"}

\* the values used on command lines and in config files
CmdValues ==
    [n \in {"config"} \cup SettingNames |->
        IF n = "config" THEN {OtherConfigPath}
        ELSE IF n = "grpc-service" THEN {"127.0.0.1:50052"}
        ELSE IF n = "symbol-size" THEN {"10"}
        ELSE {"1"}]

FileValues ==
    [n \in SettingNames |->
        IF n = "grpc-service" THEN {"127.0.0.1:50051"}
        ELSE IF n = "symbol-size" THEN {"1000", "70000"}
        ELSE {"6"}]

\* partial functions from names to one of their values
Partial(names, values) ==
    UNION {[d -> UNION {values[n] : n \in d}] : d \in SUBSET names}

Assignments(names, values) ==
    {f \in Partial(names, values) : \A n \in DOMAIN f : f[n] \in values[n]}

CommandLines == Assignments({"config"} \cup SettingNames, CmdValues)

ConfigFiles == Assignments(SettingNames, FileValues)

\* str::parse on the decimal strings in use
Decimal ==
    [s \in {"1", "6", "10", "12", "1000", "50000", "70000"} |->
        IF s = "1" THEN 1 ELSE IF s = "6" THEN 6 ELSE IF s = "10" THEN 10
        ELSE IF s = "12" THEN DefaultRedundancy
        ELSE IF s = "1000" THEN 1000
        ELSE IF s = "50000" THEN DefaultSymbolSize ELSE 70000]

\* s.parse::<uN>(): Ok(value) when the number fits the type, else Err
Parse(s, max) ==
    IF s \in DOMAIN Decimal /\ Decimal[s] <= max
    THEN Ok(Decimal[s])
    ELSE [kind |-> "Err"]

\* cmd_args_new: get_matches ends the process with a usage error when the
\* command line holds an option that was not declared
cmd_args_new(argv) ==
    IF DOMAIN argv \subseteq Declared
    THEN Ok(argv)
    ELSE [kind |-> "Exit"]

\* ArgMatches::value_of: None for a name that is absent or not declared
value_of(args, name) ==
    IF name \in DOMAIN args /\ name \in Declared
    THEN <<args[name]>>
    ELSE <<>>

\* init_cfg: the keys of the file named by --config-file, or of the default
\* one; no keys at all when the file cannot be read
init_cfg(config_path, cmd_args, files) ==
    LET v == value_of(cmd_args, "config")
        config_file == IF v # <<>> THEN v[1] ELSE config_path
    IN  IF files[config_file] = Missing THEN NoKeys ELSE files[config_file]

find_setting(args, cfg, name, default, must) ==
    LET v == value_of(args, name)
    IN  IF v # <<>> THEN Ok(v[1])
        ELSE IF name \in DOMAIN cfg THEN Ok(cfg[name])
        ELSE IF must THEN Panicked
        ELSE Ok(default)

\* the strings ServiceSettings::new passes as defaults
DefaultOf(name) ==
    IF name = "symbol-size" THEN "50000"
    ELSE IF name = "redundancy-factor" THEN "12"
    ELSE ""

InitSettings ==
    /\ startup \in
          {[pc |-> "args", argv |-> a,
            files |-> [f \in {DefaultConfigPath, OtherConfigPath} |->
                          IF f = DefaultConfigPath THEN d ELSE o]] :
             a \in CommandLines,
             d \in ConfigFiles \cup {Missing},
             o \in {Missing, [n \in SettingNames |->
                                 CHOOSE v \in FileValues[n] : TRUE]}}
    /\ calc = CalcIdle
    /\ par = ParIdle
    /\ settings = [symbol_size |-> 0, redundancy_factor |-> 0]
    /\ input = <<0>>
    /\ symbols = EmptyDir
    /\ meta = EmptyDir
    /\ restored = NoFile
    /\ op = Idle
    /\ last = NoLast
    /\ reply = NoReply
    /\ returned = NoneReturned
    /\ served = 0

\* let cmd_args = ServiceSettings::cmd_args_new(&config_path)
CmdArgsNew ==
    /\ startup.pc = "args"
    /\ LET r == cmd_args_new(startup.argv)
       IN  startup' = IF r.kind = "Exit"
                      THEN [startup EXCEPT !.pc = "exit"]
                      ELSE [pc |-> "cfg", argv |-> startup.argv,
                            files |-> startup.files, cmd_args |-> r.value]
    /\ UNCHANGED <<calc, par, settings, input, symbols, meta, restored, op,
                   last, reply, returned, served>>

\* let cfg = ServiceSettings::init_cfg(&config_path, &cmd_args)
InitCfg ==
    /\ startup.pc = "cfg"
    /\ startup' = [pc |-> "find", argv |-> startup.argv,
                   files |-> startup.files, cmd_args |-> startup.cmd_args,
                   cfg |-> init_cfg(DefaultConfigPath, startup.cmd_args,
                                    startup.files)]
    /\ UNCHANGED <<calc, par, settings, input, symbols, meta, restored, op,
                   last, reply, returned, served>>

\* the three find_setting calls with their parse().unwrap(), and the
\* ServiceSettings built from them
FindSettings ==
    /\ startup.pc = "find"
    /\ LET find(name, must) ==
               find_setting(startup.cmd_args, startup.cfg, name,
                            DefaultOf(name), must)
           grpc_service == find("grpc-service", TRUE)
           symbol_size == find("symbol-size", FALSE)
           redundancy_factor == find("redundancy-factor", FALSE)
           s == Parse(symbol_size.value, U16_MAX)
           r == Parse(redundancy_factor.value, U8_MAX)
       IN  IF grpc_service.kind = "Panic" \/ s.kind = "Err" \/ r.kind = "Err"
           THEN /\ startup' = [startup EXCEPT !.pc = "panic"]
                /\ UNCHANGED settings
           ELSE /\ startup' =
                     [pc |-> "done", argv |-> startup.argv,
                      files |-> startup.files,
                      cmd_args |-> startup.cmd_args, cfg |-> startup.cfg,
                      resolved |-> [n \in SettingNames |->
                                       find(n, n = "grpc-service").value]]
                /\ settings' = [symbol_size |-> s.value,
                                redundancy_factor |-> r.value]
    /\ UNCHANGED <<calc, par, input, symbols, meta, restored, op, last,
                   reply, returned, served>>

NextSettings == CmdArgsNew \/ InitCfg \/ FindSettings

SpecSettings == InitSettings /\ [][NextSettings]_vars

\* the keys of the config file that the command line selects
KeysInEffect ==
    LET f == IF "config" \in DOMAIN startup.argv
             THEN startup.files[startup.argv["config"]]
             ELSE startup.files[DefaultConfigPath]
    IN  IF f = Missing THEN NoKeys ELSE f

\* C11 as stated: once startup has ended, each of grpc-service,
\* symbol-size and redundancy-factor has been resolved to its command-line
\* value when the command line gives one, else to its config-file value
\* when the file has one, else to its default; except that startup is
\* fatal when grpc-service has neither.  (Values that do not parse as u16
\* or u8 are left aside.)
ConfigPrecedenceAsStated ==
    startup.pc \in {"exit", "panic", "done"} =>
      LET a == startup.argv
          k == KeysInEffect
          expected(n) == IF n \in DOMAIN a THEN a[n]
                         ELSE IF n \in DOMAIN k THEN k[n]
                         ELSE DefaultOf(n)
          parses == /\ Parse(expected("symbol-size"), U16_MAX).kind = "Ok"
                    /\ Parse(expected("redundancy-factor"),
                             U8_MAX).kind = "Ok"
      IN  IF "grpc-service" \notin DOMAIN a \cup DOMAIN k
          THEN startup.pc # "done"
          ELSE parses =>
                 /\ startup.pc = "done"
                 /\ \A n \in SettingNames : startup.resolved[n] = expected(n)

(***************************************************************************)
(* Two Encode requests for the same file served in parallel.  Each runs    *)
(* encode on a Processor of its own; what they share is the symbols/       *)
(* directory.  create_and_write is File::create, which truncates, followed *)
(* by write_all, whose writes go to the descriptor's own offset; the steps *)
(* of the two requests interleave between these system calls.              *)
(***************************************************************************)
Requests == {1, 2}

\* the bytes of a serialized packet, one per cell
WireBytes(pkt) == <<pkt[1], IF pkt[2] = "source" THEN 0 ELSE 1>> \o pkt[3]

\* File::create on an existing or a new name: the file is empty afterwards
FileCreate(dir, name) == Put(dir, name, <<>>)

\* a write that always goes to the end of the file
WriteAt_append(file, off, cell) == Append(file, cell)

\* write of one cell at offset off; a gap before it reads as zeros
WriteAt(file, off, cell) ==
    [i \in 1..(IF off + 1 > Len(file) THEN off + 1 ELSE Len(file)) |->
        IF i = off + 1 THEN cell
        ELSE IF i <= Len(file) THEN file[i]
        ELSE 0]

InitParallel ==
    /\ settings \in [symbol_size : 1..MaxSymbolSize,
                     redundancy_factor : 0..MaxRedundancy]
    /\ input \in SourceFiles
    /\ par = [pc |-> "serving", dir |-> EmptyDir, clash |-> FALSE,
              proc |-> [r \in Requests |-> [pc |-> "start"]]]
    /\ calc = CalcIdle
    /\ startup = StartupIdle
    /\ symbols = EmptyDir
    /\ meta = EmptyDir
    /\ restored = NoFile
    /\ op = Idle
    /\ last = NoLast
    /\ reply = NoReply
    /\ returned = NoneReturned
    /\ served = 0

\* the name and the bytes of the file that request r is at
ParName(r) ==
    symbols_id(PacketSerialize(par.proc[r].symbols[par.proc[r].i]))

ParBytes(r) == WireBytes(PacketSerialize(par.proc[r].symbols[par.proc[r].i]))

\* get_encoder, output_location and get_encoded_packets
ParStart(r) ==
    /\ par.pc = "serving"
    /\ par.proc[r].pc = "start"
    /\ LET e == get_encoder("ok").value
           pkts == get_encoded_packets(e.enc, e.repair_symbols)
       IN  par' = [par EXCEPT !.proc[r] =
                      [pc |-> IF Len(pkts) = 0 THEN "return" ELSE "create",
                       enc |-> e.enc, repair_symbols |-> e.repair_symbols,
                       symbols |-> pkts, i |-> 1, off |-> 0]]
    /\ UNCHANGED <<calc, startup, settings, input, symbols, meta, restored,
                   op, last, reply, returned, served>>

\* File::create(&output_file_path)
ParCreate(r) ==
    /\ par.pc = "serving"
    /\ par.proc[r].pc = "create"
    /\ par' = [par EXCEPT
                 !.dir = FileCreate(@, ParName(r)),
                 !.clash = @ \/ \E q \in Requests \ {r} :
                                  /\ par.proc[q].pc = "write"
                                  /\ par.proc[q].off > 0
                                  /\ ParName(q) = ParName(r),
                 !.proc[r].pc = "write",
                 !.proc[r].off = 0]
    /\ UNCHANGED <<calc, startup, settings, input, symbols, meta, restored,
                   op, last, reply, returned, served>>

\* one write of write_all(&pkt); after the last one the loop moves on
ParWrite(r) ==
    /\ par.pc = "serving"
    /\ par.proc[r].pc = "write"
    /\ LET me == par.proc[r]
           bytes == ParBytes(r)
           finished == me.off + 1 >= Len(bytes)
       IN  par' = [par EXCEPT
                     !.dir[ParName(r)] = WriteAt(@, me.off, bytes[me.off + 1]),
                     !.proc[r].off = IF finished THEN 0 ELSE me.off + 1,
                     !.proc[r].i = IF finished THEN me.i + 1 ELSE me.i,
                     !.proc[r].pc = IF ~finished THEN "write"
                                    ELSE IF me.i + 1 > Len(me.symbols)
                                    THEN "return"
                                    ELSE "create"]
    /\ UNCHANGED <<calc, startup, settings, input, symbols, meta, restored,
                   op, last, reply, returned, served>>

\* Ok((EncoderMetaData {...}, output_path_str))
ParReturn(r) ==
    /\ par.pc = "serving"
    /\ par.proc[r].pc = "return"
    /\ LET me == par.proc[r]
       IN  par' = [par EXCEPT !.proc[r] =
                      [pc |-> "done",
                       result |-> Ok([meta |-> EncoderMetaData(me.enc,
                                                   Len(me.symbols),
                                                   me.repair_symbols),
                                      path |-> SymbolsPath])]]
    /\ UNCHANGED <<calc, startup, settings, input, symbols, meta, restored,
                   op, last, reply, returned, served>>

NextParallel ==
    \E r \in Requests :
        \/ ParStart(r)
        \/ ParCreate(r)
        \/ ParWrite(r)
        \/ ParReturn(r)

SpecParallel == InitParallel /\ [][NextParallel]_vars

\* C17: once two parallel Encode requests for the same file have both
\* finished, however their create and write steps interleaved, both have
\* returned Ok with the same EncoderMetaData, and symbols/ holds exactly
\* one file per packet emitted, each with the complete bytes of its packet.
ParallelEncodes ==
    (\A r \in Requests : par.proc[r].pc = "done") =>
      /\ \A r \in Requests :
            par.proc[r].result =
                Ok([meta |-> MetaDataOf(input, settings),
                    path |-> SymbolsPath])
      /\ DOMAIN par.dir =
            {symbols_id(PacketSerialize(Emitted[i])) :
                i \in 1..Len(Emitted)}
      /\ \A i \in 1..Len(Emitted) :
            par.dir[symbols_id(PacketSerialize(Emitted[i]))] =
                WireBytes(PacketSerialize(Emitted[i]))

\* both requests have finished after one of them truncated a file that
\* the other had begun to write
TruncatedMidWrite ==
    /\ \A r \in Requests : par.proc[r].pc = "done"
    /\ par.clash
    /\ Len(Emitted) >= 2

====
